---- MODULE Spec2Model ----
(***************************************************************************)
(* Multi-level category management: the category store, the four category  *)
(* handlers of the controller (create, list, update, delete), the status   *)
(* cascade, the delete-and-reparent steps and the tree builders.           *)
(***************************************************************************)
EXTENDS Integers, Sequences, FiniteSets, TLC

(***************************************************************************)
(* Bounds of the model.                                                    *)
(***************************************************************************)
\* Number of category ids the store can ever hand out.
MaxIds == 3

\* Number of category ids of the forests and flat sets drawn by the
\* specifications that start from an arbitrary store.
MaxNodes == 4

(***************************************************************************)
(* Values.                                                                 *)
(***************************************************************************)
\* parent: parent || null -- the absent parent of a root category.
NoParent == 0

\* A string mongoose.Types.ObjectId.isValid rejects.
Invalid == -1

\* A well-formed ObjectId that no category ever had: new mongoose.Types.ObjectId()
\* of a client.  ObjectIds are unique and a client cannot foretell one, so no
\* category is ever created with this id.
Ghost == 99

\* enum: ['active', 'inactive']
Statuses == {"active", "inactive"}

\* The response slot before any response was sent.
NoCode == 0

VARIABLES
    store,    \* the categories collection: _id -> [name, parent, status]
    nextId,   \* the next fresh _id
    req,      \* the last operation, its arguments and its HTTP status
    pre,      \* the collection as it was when the last operation started
    body,     \* the categories tree of the last operation that built one
    input,    \* the flat category array handed to the tree builders
    pc,       \* deleteCategory run step by step: the store call it is at
    dparent,  \* deleteCategory: const parentId
    dsubs,    \* deleteCategory: const subcategories
    failed,   \* the store calls that threw so far, in order
    orig,     \* the collection when the first attempt of a retried delete began
    upc,      \* updateCategory run step by step: the store call it is at
    ucat,     \* updateCategory: const category, the document held in memory
    stack,    \* updateDescendantStatus: the calls that are inside their loop
    calls,    \* the store calls the current handler has issued, in order
    hdr,      \* the Authorization header of the last routed request, and
              \* whether authenticate called next()
    result,   \* the array getAllDescendantIds returned
    procs,    \* the handlers that run at once: for each, the request and the
              \* handler's local variables
    race      \* the requests two handlers were started with, by handler

vars == <<store, nextId, req, pre, body, input, pc, dparent, dsubs, failed, orig,
          upc, ucat, stack, calls, hdr, result, procs, race>>

(***************************************************************************)
(* The collection.                                                         *)
(***************************************************************************)
EmptyStore == <<>>

NoBody == [roots |-> <<>>, nodes |-> <<>>]

\* No document in hand.
NoDoc == [name |-> "", parent |-> NoParent, status |-> "", mod |-> {}]

\* A request that carries no Authorization header; a header is the array of
\* words header.split(' ') makes of it.
NoHeader == <<>>

\* No request was routed: no header, and next() was not called.
NoAuth == [words |-> NoHeader, next |-> FALSE]

\* The handlers that run at once: two requests in flight.
Procs == {"p", "q"}

\* A handler that holds no request: no arguments, no response, and its
\* locals (parentId, subcategories, category, the cascade's calls) empty.
NoProc ==
    [op |-> "none", pc |-> "idle", id |-> NoParent, name |-> "",
     parent |-> NoParent, status |-> "", code |-> NoCode, dparent |-> NoParent,
     subs |-> <<>>, cat |-> NoDoc, stack |-> <<>>]

NoProcs == [p \in Procs |-> NoProc]

NoReq == [op |-> "none", id |-> NoParent, name |-> "", parent |-> NoParent,
          status |-> "", code |-> NoCode]

\* The ids of a set in ascending order: the natural order of a find().
RECURSIVE SortedSeq(_)
SortedSeq(S) ==
    IF S = {} THEN <<>>
    ELSE LET m == CHOOSE x \in S : \A y \in S : x <= y
         IN <<m>> \o SortedSeq(S \ {m})

\* Category.find(): every document, as a flat array of records.
FindAll(st) ==
    LET ids == SortedSeq(DOMAIN st)
    IN [i \in 1..Len(ids) |->
          [_id |-> ids[i], name |-> st[ids[i]].name,
           parent |-> st[ids[i]].parent, status |-> st[ids[i]].status]]

\* Category.find({ parent: id }): the direct children, as ids.
FindByParent(st, id) ==
    SortedSeq({c \in DOMAIN st : st[c].parent = id})

\* category.save() of a new document.
InsertDoc(st, id, doc) ==
    [i \in DOMAIN st \cup {id} |-> IF i = id THEN doc ELSE st[i]]

\* Category.findByIdAndDelete(id).
FindByIdAndDelete(st, id) ==
    [i \in DOMAIN st \ {id} |-> st[i]]

\* One updateOne of a bulkWrite: { filter: { _id }, update: { $set: { status } } }.
SetStatus(st, id, status) ==
    IF id \in DOMAIN st THEN [st EXCEPT ![id].status = status] ELSE st

\* One updateOne of a bulkWrite: { filter: { _id }, update: { $set: { parent } } }.
SetParent(st, id, parent) ==
    IF id \in DOMAIN st THEN [st EXCEPT ![id].parent = parent] ELSE st

\* Faulty variant: the bulk write loses its filter and sets the status of every document.
BulkWriteStatusAll(st, children, status) ==
    [i \in DOMAIN st |-> [st[i] EXCEPT !.status = status]]

\* Category.bulkWrite(bulkOps) of the cascade: $set status on each child.
RECURSIVE BulkWriteStatus(_, _, _)
BulkWriteStatus(st, children, status) ==
    IF children = <<>> THEN st
    ELSE BulkWriteStatus(SetStatus(st, Head(children), status),
                         Tail(children), status)

\* Category.bulkWrite(bulkOps) of the delete: $set parent on each subcategory.
RECURSIVE BulkWriteParent(_, _, _)
BulkWriteParent(st, subs, parent) ==
    IF subs = <<>> THEN st
    ELSE BulkWriteParent(SetParent(st, Head(subs), parent), Tail(subs), parent)

(***************************************************************************)
(* The parent relation of a collection.                                    *)
(***************************************************************************)
\* The ids met by following parent references upward from id, at most n steps.
RECURSIVE Up(_, _, _)
Up(st, id, n) ==
    IF n = 0 \/ id \notin DOMAIN st THEN {}
    ELSE IF st[id].parent = NoParent THEN {}
         ELSE {st[id].parent} \cup Up(st, st[id].parent, n - 1)

Ancestors(st, id) == Up(st, id, Cardinality(DOMAIN st))

\* The transitive descendants of id: the categories that have id above them.
Descendants(st, id) == {d \in DOMAIN st : id \in Ancestors(st, d)}

Children(st, id) == {c \in DOMAIN st : st[c].parent = id}

\* parent forms a forest: no category is above itself.
Acyclic(st) == \A id \in DOMAIN st : id \notin Ancestors(st, id)

(***************************************************************************)
(* updateDescendantStatus: the status cascade.                             *)
(***************************************************************************)
RECURSIVE UpdateDescendantStatus(_, _, _)
RECURSIVE CascadeEach(_, _, _)

\* for (const child of children) await updateDescendantStatus(child._id, status)
CascadeEach(st, children, status) ==
    IF children = <<>> THEN st
    ELSE CascadeEach(UpdateDescendantStatus(st, Head(children), status),
                     Tail(children), status)

\* Faulty variant: the cascade updates the direct children and does not recurse.
UpdateDescendantStatusShallow(st, parentId, status) ==
    BulkWriteStatus(st, FindByParent(st, parentId), status)

UpdateDescendantStatus(st, parentId, status) ==
    LET children == FindByParent(st, parentId)
    IN IF Len(children) > 0
       THEN CascadeEach(BulkWriteStatus(st, children, status), children, status)
       ELSE st

(***************************************************************************)
(* The handlers, each as the collection and the HTTP status it ends with.  *)
(* A handler that goes on after a response was sent keeps that response:   *)
(* a later res.json throws and the client sees the first one.              *)
(***************************************************************************)
FirstCode(sent, code) == IF sent # NoCode THEN sent ELSE code

\* Schema validation of save(): name is required, status is of the enum.
Validates(name, status) == name # "" /\ status \in Statuses

CreateCategory(st, newId, name, parent, status) ==
    IF parent = Invalid
    THEN [st |-> st, code |-> 500]
    ELSE LET sent == IF parent # NoParent /\ parent \notin DOMAIN st
                     THEN 400 ELSE NoCode
             doc == [name |-> name, parent |-> parent,
                     status |-> IF status = "" THEN "active" ELSE status]
         IN IF Validates(doc.name, doc.status)
            THEN [st |-> InsertDoc(st, newId, doc), code |-> FirstCode(sent, 201)]
            ELSE [st |-> st, code |-> FirstCode(sent, 500)]

\* Faulty variant: the update sets the category's own status and forgets the cascade.
UpdateCategoryNoCascade(st, id, name, status) ==
    IF id = Invalid THEN [st |-> st, code |-> 400]
    ELSE IF id \notin DOMAIN st THEN [st |-> st, code |-> 404]
    ELSE [st |-> [st EXCEPT ![id].name = IF name # "" THEN name ELSE @,
                            ![id].status = IF status # "" THEN status ELSE @],
          code |-> 200]

UpdateCategory(st, id, name, status) ==
    IF id = Invalid THEN [st |-> st, code |-> 400]
    ELSE IF id \notin DOMAIN st THEN [st |-> st, code |-> 404]
    ELSE LET newName == IF name # "" THEN name ELSE st[id].name
             cascade == status # "" /\ status # st[id].status
                        /\ status = "inactive"
             newStatus == IF status # "" THEN status ELSE st[id].status
             st1 == IF cascade THEN UpdateDescendantStatus(st, id, "inactive")
                    ELSE st
         IN IF Validates(newName, newStatus)
            THEN [st |-> [st1 EXCEPT ![id].name = newName,
                                     ![id].status = newStatus],
                  code |-> 200]
            ELSE [st |-> st1, code |-> 500]

\* Faulty variant: the parent of the deleted category is lost and its subcategories
\* become roots.
DeleteCategoryLosesParent(st, id) ==
    IF id = Invalid THEN [st |-> st, code |-> 400]
    ELSE IF id \notin DOMAIN st THEN [st |-> st, code |-> 404]
    ELSE [st |-> FindByIdAndDelete(
                     BulkWriteParent(st, FindByParent(st, id), NoParent), id),
          code |-> 200]

\* Faulty variant: every transitive descendant is reassigned, not only the children.
DeleteCategoryDeep(st, id) ==
    IF id = Invalid THEN [st |-> st, code |-> 400]
    ELSE IF id \notin DOMAIN st THEN [st |-> st, code |-> 404]
    ELSE [st |-> FindByIdAndDelete(
                     BulkWriteParent(st, SortedSeq(Descendants(st, id)),
                                     st[id].parent), id),
          code |-> 200]

DeleteCategory(st, id) ==
    IF id = Invalid THEN [st |-> st, code |-> 400]
    ELSE IF id \notin DOMAIN st THEN [st |-> st, code |-> 404]
    ELSE LET parentId == st[id].parent
             subcategories == FindByParent(st, id)
             st1 == IF Len(subcategories) > 0
                    THEN BulkWriteParent(st, subcategories, parentId)
                    ELSE st
         IN [st |-> FindByIdAndDelete(st1, id), code |-> 200]

(***************************************************************************)
(* The tree builders.  A tree is the root list plus the categoryMap: each  *)
(* node holds its copied fields and the ids of the nodes pushed to its     *)
(* children array.                                                         *)
(***************************************************************************)
\* categoryMap.set(category._id.toString(), { _id, name, status, children: [] })
MapSet(map, c) ==
    LET node == [_id |-> c._id, name |-> c.name, status |-> c.status,
                 children |-> <<>>]
    IN [i \in DOMAIN map \cup {c._id} |-> IF i = c._id THEN node ELSE map[i]]

\* First pass: categories.forEach(category => categoryMap.set(...)).
RECURSIVE MapCategories(_, _)
MapCategories(categories, map) ==
    IF categories = <<>> THEN map
    ELSE MapCategories(Tail(categories), MapSet(map, Head(categories)))

\* Faulty variant: a nested category is pushed to the root list.
PushChildToRoot(t, parentId, id) ==
    [t EXCEPT !.roots = Append(@, id)]

\* parent.children.push(mappedCat)
PushChild(t, parentId, id) ==
    [t EXCEPT !.nodes[parentId].children = Append(@, id)]

\* Faulty variant: a root is put at the front of the root list.
PushRootFirst(t, id) ==
    [t EXCEPT !.roots = <<id>> \o @]

\* rootCategories.push(mappedCat)
PushRoot(t, id) ==
    [t EXCEPT !.roots = Append(@, id)]

\* Faulty variant: a category whose parent is not in the map is pushed nowhere.
LinkCategoryDropsDangling(t, c) ==
    IF c.parent # NoParent /\ c.parent \notin DOMAIN t.nodes THEN t
    ELSE IF c.parent # NoParent THEN PushChild(t, c.parent, c._id)
         ELSE PushRoot(t, c._id)

\* Body of the second forEach of the utility's buildCategoryTree.
LinkCategory(t, c) ==
    IF c._id \notin DOMAIN t.nodes THEN t
    ELSE IF c.parent # NoParent
         THEN IF c.parent \in DOMAIN t.nodes
              THEN PushChild(t, c.parent, c._id)
              ELSE PushRoot(t, c._id)
         ELSE PushRoot(t, c._id)

\* Body of the second forEach of the controller's buildCategoryTree: a
\* category whose parent is not in the map is pushed nowhere.
LinkCategoryCtl(t, c) ==
    IF c.parent # NoParent
    THEN IF c.parent \in DOMAIN t.nodes
         THEN PushChild(t, c.parent, c._id)
         ELSE t
    ELSE PushRoot(t, c._id)

RECURSIVE LinkCategories(_, _)
LinkCategories(categories, t) ==
    IF categories = <<>> THEN t
    ELSE LinkCategories(Tail(categories), LinkCategory(t, Head(categories)))

RECURSIVE LinkCategoriesCtl(_, _)
LinkCategoriesCtl(categories, t) ==
    IF categories = <<>> THEN t
    ELSE LinkCategoriesCtl(Tail(categories), LinkCategoryCtl(t, Head(categories)))

\* The utility's buildCategoryTree.
BuildCategoryTree(categories) ==
    LinkCategories(categories,
                   [roots |-> <<>>, nodes |-> MapCategories(categories, <<>>)])

\* The controller's buildCategoryTree, the one getAllCategories calls.
BuildCategoryTreeCtl(categories) ==
    LinkCategoriesCtl(categories,
                      [roots |-> <<>>, nodes |-> MapCategories(categories, <<>>)])

(***************************************************************************)
(* getAllDescendantIds of the utility module.                              *)
(***************************************************************************)
RECURSIVE GetAllDescendantIds(_, _)
RECURSIVE EachChild(_, _)
RECURSIVE EachChildLast(_, _)

\* Faulty variant: a child's id is pushed after the ids of its descendants.
EachChildLast(children, categories) ==
    IF children = <<>> THEN <<>>
    ELSE GetAllDescendantIds(Head(children)._id, categories)
             \o <<Head(children)._id>>
             \o EachChildLast(Tail(children), categories)

\* children.forEach: descendants.push(childId), then
\* descendants.push(...getAllDescendantIds(childId, categories)).
EachChild(children, categories) ==
    IF children = <<>> THEN <<>>
    ELSE <<Head(children)._id>>
             \o GetAllDescendantIds(Head(children)._id, categories)
             \o EachChild(Tail(children), categories)

\* categories.filter(cat => cat.parent && cat.parent.toString() === categoryId)
\* keeps the input order of the children.
GetAllDescendantIds(categoryId, categories) ==
    EachChild(SelectSeq(categories,
                        LAMBDA cat : cat.parent # NoParent
                                        /\ cat.parent = categoryId),
              categories)

(***************************************************************************)
(* Requests against the API, one handler per step, from an empty store.    *)
(***************************************************************************)
\* Ids a client can name: those of categories created so far, a well-formed
\* id of no category, and a malformed one.
KnownIds == 1..(nextId - 1)

ReqIds == KnownIds \cup {Ghost, Invalid}

ReqParents == KnownIds \cup {NoParent, Ghost, Invalid}

\* The requests of the API specification carry one name (or none): renames
\* are exercised by the specification that starts from arbitrary forests.
ReqNames == {"a", ""}

\* The status of a request body: absent ("") or of the enum; an update may
\* also carry one that is not of the enum, which save() rejects.
ReqStatuses == Statuses \cup {""}

PutStatuses == ReqStatuses \cup {"archived"}

Idle ==
    /\ pc = "idle"
    /\ upc = "idle"
    /\ UNCHANGED <<input, pc, dparent, dsubs, failed, orig>>
    /\ UNCHANGED <<upc, ucat, stack, calls, hdr, result, procs, race>>

PostCategory(name, parent, status) ==
    /\ Idle
    /\ nextId <= MaxIds
    /\ LET r == CreateCategory(store, nextId, name, parent, status)
       IN /\ store' = r.st
          /\ nextId' = IF nextId \in DOMAIN r.st THEN nextId + 1 ELSE nextId
          /\ req' = [op |-> "create", id |-> nextId, name |-> name,
                     parent |-> parent, status |-> status, code |-> r.code]
    /\ pre' = store
    /\ body' = NoBody

GetCategories ==
    /\ Idle
    /\ body' = BuildCategoryTreeCtl(FindAll(store))
    /\ req' = [NoReq EXCEPT !.op = "getAll", !.code = 200]
    /\ pre' = store
    /\ UNCHANGED <<store, nextId>>

PutCategory(id, name, status) ==
    /\ Idle
    /\ LET r == UpdateCategory(store, id, name, status)
       IN /\ store' = r.st
          /\ req' = [op |-> "update", id |-> id, name |-> name,
                     parent |-> NoParent, status |-> status, code |-> r.code]
    /\ pre' = store
    /\ body' = NoBody
    /\ UNCHANGED nextId

DeleteCategoryReq(id) ==
    /\ Idle
    /\ LET r == DeleteCategory(store, id)
       IN /\ store' = r.st
          /\ req' = [NoReq EXCEPT !.op = "delete", !.id = id, !.code = r.code]
    /\ pre' = store
    /\ body' = NoBody
    /\ UNCHANGED nextId

Init ==
    /\ store = EmptyStore
    /\ nextId = 1
    /\ req = NoReq
    /\ pre = EmptyStore
    /\ body = NoBody
    /\ input = <<>>
    /\ pc = "idle"
    /\ dparent = NoParent
    /\ dsubs = <<>>
    /\ failed = <<>>
    /\ orig = EmptyStore
    /\ upc = "idle"
    /\ ucat = NoDoc
    /\ stack = <<>>
    /\ calls = <<>>
    /\ hdr = NoAuth
    /\ result = <<>>
    /\ procs = NoProcs
    /\ race = NoProcs

Next ==
    \/ \E name \in ReqNames, parent \in ReqParents, status \in ReqStatuses :
           PostCategory(name, parent, status)
    \/ GetCategories
    \/ \E id \in ReqIds, name \in ReqNames, status \in PutStatuses :
           PutCategory(id, name, status)
    \/ \E id \in ReqIds : DeleteCategoryReq(id)

Spec == Init /\ [][Next]_vars

(***************************************************************************)
(* One operation on an arbitrary acyclic collection: the cascade called    *)
(* directly, an update or a delete.                                        *)
(***************************************************************************)
NodeIds == 1..MaxNodes

\* Every collection of up to MaxNodes categories the API can build, with every
\* combination of statuses: ids are handed out in creation order, a parent is
\* stored before its children are created, and a delete moves children to an
\* older category, so each parent is absent or an older category.
Forests ==
    UNION {{st \in [1..k -> [name : {"a"}, parent : (1..k) \cup {NoParent},
                             status : Statuses]] :
               \A id \in 1..k : st[id].parent = NoParent \/ st[id].parent < id}
           : k \in 0..MaxNodes}

ForestInit ==
    /\ store \in Forests
    /\ nextId = MaxNodes + 1
    /\ req = NoReq
    /\ pre = EmptyStore
    /\ body = NoBody
    /\ input = <<>>
    /\ pc = "idle"
    /\ dparent = NoParent
    /\ dsubs = <<>>
    /\ failed = <<>>
    /\ orig = EmptyStore
    /\ upc = "idle"
    /\ ucat = NoDoc
    /\ stack = <<>>
    /\ calls = <<>>
    /\ hdr = NoAuth
    /\ result = <<>>
    /\ procs = NoProcs
    /\ race = NoProcs

\* updateDescendantStatus(id, status) called on an existing category.
CascadeStatus(id, status) ==
    /\ Idle
    /\ req.op = "none"
    /\ id \in DOMAIN store
    /\ store' = UpdateDescendantStatus(store, id, status)
    /\ req' = [NoReq EXCEPT !.op = "cascade", !.id = id, !.status = status]
    /\ pre' = store
    /\ body' = NoBody
    /\ UNCHANGED nextId

ForestPut(id, name, status) ==
    /\ req.op = "none"
    /\ id \in DOMAIN store
    /\ PutCategory(id, name, status)

ForestDelete(id) ==
    /\ req.op = "none"
    /\ id \in DOMAIN store
    /\ DeleteCategoryReq(id)

ForestNext ==
    \/ \E id \in NodeIds, status \in Statuses : CascadeStatus(id, status)
    \/ \E id \in NodeIds, name \in {"", "b"}, status \in PutStatuses :
           ForestPut(id, name, status)
    \/ \E id \in NodeIds : ForestDelete(id)

SpecForest == ForestInit /\ [][ForestNext]_vars

(***************************************************************************)
(* The tree builders applied to an arbitrary flat array of categories with *)
(* distinct ids; the parent references are arbitrary.                      *)
(***************************************************************************)
MaxLen == 3

InputIds == 1..MaxLen

\* A parent is absent, an id an input record may have, or an id none has.
InputRecords ==
    [_id : InputIds, name : {"a"}, parent : InputIds \cup {NoParent, Ghost},
     status : {"active"}]

TreeInputs ==
    {s \in UNION {[1..k -> InputRecords] : k \in 0..MaxLen} :
        \A i, j \in DOMAIN s : i # j => s[i]._id # s[j]._id}

TreeInit ==
    /\ input \in TreeInputs
    /\ store = EmptyStore
    /\ nextId = 1
    /\ req = NoReq
    /\ pre = EmptyStore
    /\ body = NoBody
    /\ pc = "idle"
    /\ dparent = NoParent
    /\ dsubs = <<>>
    /\ failed = <<>>
    /\ orig = EmptyStore
    /\ upc = "idle"
    /\ ucat = NoDoc
    /\ stack = <<>>
    /\ calls = <<>>
    /\ hdr = NoAuth
    /\ result = <<>>
    /\ procs = NoProcs
    /\ race = NoProcs

BuildTree ==
    /\ req.op = "none"
    /\ body' = BuildCategoryTree(input)
    /\ req' = [NoReq EXCEPT !.op = "buildTree"]
    /\ UNCHANGED <<store, nextId, pre, input, pc, dparent, dsubs, failed, orig>>
    /\ UNCHANGED <<upc, ucat, stack, calls, hdr, result, procs, race>>

BuildTreeCtl ==
    /\ req.op = "none"
    /\ body' = BuildCategoryTreeCtl(input)
    /\ req' = [NoReq EXCEPT !.op = "buildTreeCtl"]
    /\ UNCHANGED <<store, nextId, pre, input, pc, dparent, dsubs, failed, orig>>
    /\ UNCHANGED <<upc, ucat, stack, calls, hdr, result, procs, race>>

\* The flat array as a collection keyed by _id (the ids of an input are
\* distinct).
InputStore(categories) ==
    [id \in {categories[i]._id : i \in DOMAIN categories} |->
        LET i == CHOOSE j \in DOMAIN categories : categories[j]._id = id
        IN [name |-> categories[i].name, parent |-> categories[i].parent,
            status |-> categories[i].status]]

\* A cycle of parent references lies below id (or through it).
CycleBelow(st, id) ==
    \E d \in (Descendants(st, id) \cup {id}) \cap DOMAIN st :
        d \in Ancestors(st, d)

\* getAllDescendantIds(id, input).  With a cycle of parent references below
\* id the recursion has no end and the call throws RangeError (code 500
\* stands for the throw); there is no array returned then.
ListDescendants(id) ==
    /\ req.op = "none"
    /\ IF CycleBelow(InputStore(input), id)
       THEN /\ result' = <<>>
            /\ req' = [NoReq EXCEPT !.op = "listDescendants", !.id = id,
                                    !.code = 500]
       ELSE /\ result' = GetAllDescendantIds(id, input)
            /\ req' = [NoReq EXCEPT !.op = "listDescendants", !.id = id]
    /\ UNCHANGED <<store, nextId, pre, body, input, pc, dparent, dsubs, failed,
                   orig, upc, ucat, stack, calls, hdr, procs, race>>

TreeNext ==
    \/ BuildTree
    \/ BuildTreeCtl
    \/ \E id \in InputIds \cup {Ghost} : ListDescendants(id)

SpecTree == TreeInit /\ [][TreeNext]_vars

(***************************************************************************)
(* deleteCategory one store call at a time, on an arbitrary forest.  A     *)
(* store call may throw: the handler's catch answers 500 and the client    *)
(* sends the same request again.                                           *)
(***************************************************************************)
\* Store errors injected into one run.
MaxFails == 1

Last(seq) == seq[Len(seq)]

\* One store call in the log: which call, and the ids a bulk write named
\* in the operations it applied.
Call(name, ids) == [call |-> name, ids |-> ids]

\* DELETE /api/category/:id arrives; isValid is checked and, as the 400 branch
\* does not return, the handler goes on to findById in either case.
DelBegin(id) ==
    /\ pc = "idle"
    /\ upc = "idle"
    /\ req.op = "none"
    /\ pc' = "findById"
    /\ req' = [NoReq EXCEPT !.op = "delete", !.id = id,
                            !.code = IF id = Invalid THEN 400 ELSE NoCode]
    /\ pre' = store
    /\ orig' = store
    /\ UNCHANGED <<store, nextId, body, input, dparent, dsubs, failed>>
    /\ calls' = <<>>
    /\ UNCHANGED <<upc, ucat, stack, hdr, result, procs, race>>

\* const category = await Category.findById(id), the 404 branch and
\* const parentId = category.parent.  A malformed id makes findById throw.
DelFindById ==
    /\ pc = "findById"
    /\ IF req.id = Invalid
       THEN /\ pc' = "done"
            /\ req' = [req EXCEPT !.code = FirstCode(@, 500)]
            /\ UNCHANGED dparent
       ELSE IF req.id \notin DOMAIN store
            THEN /\ pc' = "done"
                 /\ req' = [req EXCEPT !.code = FirstCode(@, 404)]
                 /\ UNCHANGED dparent
            ELSE /\ pc' = "find"
                 /\ dparent' = store[req.id].parent
                 /\ UNCHANGED req
    /\ UNCHANGED <<store, nextId, pre, body, input, dsubs, failed, orig>>
    /\ calls' = Append(calls, Call("findById", <<>>))
    /\ UNCHANGED <<upc, ucat, stack, hdr, result, procs, race>>

\* Faulty variant: the handler goes from the query of the subcategories
\* straight to the deletion.
DelFindSkipsReassign ==
    /\ pc = "find"
    /\ dsubs' = FindByParent(store, req.id)
    /\ pc' = "delete"
    /\ UNCHANGED <<store, nextId, req, pre, body, input, dparent, failed, orig>>
    /\ calls' = Append(calls, Call("find", <<>>))
    /\ UNCHANGED <<upc, ucat, stack, hdr, result, procs, race>>

\* Faulty variant: the bulk write is issued whether or not there are
\* subcategories.
DelFindAlwaysReassigns ==
    /\ pc = "find"
    /\ dsubs' = FindByParent(store, req.id)
    /\ pc' = "bulkWrite"
    /\ UNCHANGED <<store, nextId, req, pre, body, input, dparent, failed, orig>>
    /\ calls' = Append(calls, Call("find", <<>>))
    /\ UNCHANGED <<upc, ucat, stack, hdr, result, procs, race>>

\* const subcategories = await Category.find({ parent: id })
DelFind ==
    /\ pc = "find"
    /\ dsubs' = FindByParent(store, req.id)
    /\ pc' = IF Len(dsubs') > 0 THEN "bulkWrite" ELSE "delete"
    /\ UNCHANGED <<store, nextId, req, pre, body, input, dparent, failed, orig>>
    /\ calls' = Append(calls, Call("find", <<>>))
    /\ UNCHANGED <<upc, ucat, stack, hdr, result, procs, race>>

\* Faulty variant: the subcategories are made roots whatever the parent was.
DelBulkWriteToRoot ==
    /\ pc = "bulkWrite"
    /\ store' = BulkWriteParent(store, dsubs, NoParent)
    /\ pc' = "delete"
    /\ UNCHANGED <<nextId, req, pre, body, input, dparent, dsubs, failed, orig>>
    /\ calls' = Append(calls, Call("bulkWrite", dsubs))
    /\ UNCHANGED <<upc, ucat, stack, hdr, result, procs, race>>

\* await Category.bulkWrite(bulkOps): parent: parentId || null on each.
DelBulkWrite ==
    /\ pc = "bulkWrite"
    /\ store' = BulkWriteParent(store, dsubs, dparent)
    /\ pc' = "delete"
    /\ UNCHANGED <<nextId, req, pre, body, input, dparent, dsubs, failed, orig>>
    /\ calls' = Append(calls, Call("bulkWrite", dsubs))
    /\ UNCHANGED <<upc, ucat, stack, hdr, result, procs, race>>

\* await Category.findByIdAndDelete(id) and the 200 response.
DelFindByIdAndDelete ==
    /\ pc = "delete"
    /\ store' = FindByIdAndDelete(store, req.id)
    /\ pc' = "done"
    /\ req' = [req EXCEPT !.code = FirstCode(@, 200)]
    /\ UNCHANGED <<nextId, pre, body, input, dparent, dsubs, failed, orig>>
    /\ calls' = Append(calls, Call("findByIdAndDelete", <<>>))
    /\ UNCHANGED <<upc, ucat, stack, hdr, result, procs, race>>

\* findById, find or findByIdAndDelete throws and writes nothing; the catch
\* block answers 500.
DelStoreError ==
    /\ pc \in {"findById", "find", "delete"}
    /\ Len(failed) < MaxFails
    /\ failed' = Append(failed, pc)
    /\ pc' = "failed"
    /\ req' = [req EXCEPT !.code = FirstCode(@, 500)]
    /\ UNCHANGED <<store, nextId, pre, body, input, dparent, dsubs, orig>>
    /\ calls' = Append(calls, Call(IF pc = "delete" THEN "findByIdAndDelete"
                                    ELSE pc, <<>>))
    /\ UNCHANGED <<upc, ucat, stack, hdr, result, procs, race>>

\* bulkWrite throws: an ordered bulk write stops at the first operation that
\* fails, the k operations before it are written (all of them when the error
\* is in the reply).
DelBulkWriteError(k) ==
    /\ pc = "bulkWrite"
    /\ Len(failed) < MaxFails
    /\ k \in 0..Len(dsubs)
    /\ store' = BulkWriteParent(store, SubSeq(dsubs, 1, k), dparent)
    /\ failed' = Append(failed, pc)
    /\ pc' = "failed"
    /\ req' = [req EXCEPT !.code = FirstCode(@, 500)]
    /\ UNCHANGED <<nextId, pre, body, input, dparent, dsubs, orig>>
    /\ calls' = Append(calls, Call(pc, SubSeq(dsubs, 1, k)))
    /\ UNCHANGED <<upc, ucat, stack, hdr, result, procs, race>>

\* The client sends the same DELETE again: the handler starts over.
DelRetry ==
    /\ pc = "failed"
    /\ pc' = "findById"
    /\ req' = [req EXCEPT !.code = IF req.id = Invalid THEN 400 ELSE NoCode]
    /\ pre' = store
    /\ dparent' = NoParent
    /\ dsubs' = <<>>
    /\ UNCHANGED <<store, nextId, body, input, failed, orig>>
    /\ calls' = <<>>
    /\ UNCHANGED <<upc, ucat, stack, hdr, result, procs, race>>

DeleteNext ==
    \/ \E id \in NodeIds \cup {Invalid} : DelBegin(id)
    \/ DelFindById
    \/ DelFind
    \/ DelBulkWrite
    \/ DelFindByIdAndDelete
    \/ DelStoreError
    \/ \E k \in 0..MaxNodes : DelBulkWriteError(k)
    \/ DelRetry

\* deleteCategory neither reads nor writes a status: the step-by-step runs
\* start from the forests whose categories are all active.
DeleteInit ==
    /\ ForestInit
    /\ \A id \in DOMAIN store : store[id].status = "active"

SpecDelete == DeleteInit /\ [][DeleteNext]_vars

(***************************************************************************)
(* updateCategory and updateDescendantStatus one store call at a time.     *)
(* Between two store calls the handler runs without a break: the loop      *)
(* bookkeeping of updateDescendantStatus belongs to the call before it.    *)
(***************************************************************************)
\* How deep the recursion of updateDescendantStatus is followed: one more
\* than a forest of MaxNodes categories can make it.  On a cycle of parent
\* references the recursion has no end and is followed this deep.
MaxDepth == MaxNodes + 1

Front(seq) == SubSeq(seq, 1, Len(seq) - 1)

\* A call of updateDescendantStatus that found these children; i is the place
\* of the child its for loop awaits, 0 while its bulkWrite is still to come.
Frame(children, i) == [children |-> children, i |-> i]

\* The parentId of the call that is about to run Category.find: the child
\* the innermost loop awaits, or the id the cascade was started with.
FindTarget ==
    IF stack = <<>> THEN req.id
    ELSE Last(stack).children[Last(stack).i]

\* A call returns: the loop of its caller goes to the next child, or is at
\* its end and the caller returns in turn.  The empty stack is the return of
\* the outermost call.
RECURSIVE Return(_)
Return(stk) ==
    IF stk = <<>> THEN <<>>
    ELSE IF Last(stk).i < Len(Last(stk).children)
         THEN Append(Front(stk), [Last(stk) EXCEPT !.i = @ + 1])
         ELSE Return(Front(stk))

\* Where the caller of the outermost updateDescendantStatus goes on:
\* updateCategory at category.save(), a direct call is finished.
AfterCascade == IF req.op = "update" THEN "save" ELSE "done"

\* updateDescendantStatus(id, status) is called on its own.
CasBegin(id, status) ==
    /\ pc = "idle"
    /\ upc = "idle"
    /\ req.op = "none"
    /\ id \in DOMAIN store
    /\ upc' = "find"
    /\ req' = [NoReq EXCEPT !.op = "cascade", !.id = id, !.status = status]
    /\ pre' = store
    /\ calls' = <<>>
    /\ stack' = <<>>
    /\ UNCHANGED <<store, nextId, body, input, pc, dparent, dsubs, failed, orig,
                   ucat, hdr, result, procs, race>>

\* Faulty variant: a category that is already in a loop above is taken to
\* have no children, so no category is visited twice.
CasFindOnce ==
    /\ upc = "find"
    /\ Len(stack) < MaxDepth
    /\ LET above == {stack[k].children[stack[k].i] : k \in DOMAIN stack}
                        \cup {req.id}
           children == SelectSeq(FindByParent(store, FindTarget),
                                 LAMBDA c : c \notin above)
           returned == Return(stack)
       IN IF Len(children) > 0
          THEN /\ stack' = Append(stack, Frame(children, 0))
               /\ upc' = "bulkWrite"
          ELSE /\ stack' = returned
               /\ upc' = IF returned = <<>> THEN AfterCascade ELSE "find"
    /\ calls' = Append(calls, Call("find", <<>>))
    /\ UNCHANGED <<store, nextId, req, pre, body, input, pc, dparent, dsubs,
                   failed, orig, ucat, hdr, result, procs, race>>

\* const children = await Category.find({ parent: parentId }); with no
\* children the call returns.
CasFind ==
    /\ upc = "find"
    /\ Len(stack) < MaxDepth
    /\ LET children == FindByParent(store, FindTarget)
           returned == Return(stack)
       IN IF Len(children) > 0
          THEN /\ stack' = Append(stack, Frame(children, 0))
               /\ upc' = "bulkWrite"
          ELSE /\ stack' = returned
               /\ upc' = IF returned = <<>> THEN AfterCascade ELSE "find"
    /\ calls' = Append(calls, Call("find", <<>>))
    /\ UNCHANGED <<store, nextId, req, pre, body, input, pc, dparent, dsubs,
                   failed, orig, ucat, hdr, result, procs, race>>

\* Faulty variant: the bulk write holds the operation of the first child
\* only.
CasBulkWriteFirstOnly ==
    /\ upc = "bulkWrite"
    /\ store' = BulkWriteStatus(store, SubSeq(Last(stack).children, 1, 1),
                                req.status)
    /\ stack' = Append(Front(stack), [Last(stack) EXCEPT !.i = 1])
    /\ upc' = "find"
    /\ calls' = Append(calls, Call("bulkWrite",
                                   SubSeq(Last(stack).children, 1, 1)))
    /\ UNCHANGED <<nextId, req, pre, body, input, pc, dparent, dsubs, failed,
                   orig, ucat, hdr, result, procs, race>>

\* await Category.bulkWrite(bulkOps), then the for loop calls
\* updateDescendantStatus on the first child.
CasBulkWrite ==
    /\ upc = "bulkWrite"
    /\ store' = BulkWriteStatus(store, Last(stack).children, req.status)
    /\ stack' = Append(Front(stack), [Last(stack) EXCEPT !.i = 1])
    /\ upc' = "find"
    /\ calls' = Append(calls, Call("bulkWrite", Last(stack).children))
    /\ UNCHANGED <<nextId, req, pre, body, input, pc, dparent, dsubs, failed,
                   orig, ucat, hdr, result, procs, race>>

\* category.name = name || category.name, category.status = status: the
\* document in memory, with the paths whose value changed marked modified.
Assign(category, name, status) ==
    LET newName == IF name # "" THEN name ELSE category.name
        newStatus == IF status # "" THEN status ELSE category.status
    IN [name |-> newName, parent |-> category.parent, status |-> newStatus,
        mod |-> (IF newName # category.name THEN {"name"} ELSE {})
                    \cup (IF newStatus # category.status THEN {"status"}
                          ELSE {})]

\* The write of save(): the modified paths of the document are set on the
\* stored one.
WriteModified(st, id, doc) ==
    IF id \notin DOMAIN st THEN st
    ELSE [st EXCEPT ![id].name = IF "name" \in doc.mod THEN doc.name ELSE @,
                    ![id].status = IF "status" \in doc.mod THEN doc.status
                                   ELSE @]

\* PUT /api/category/:id arrives; a malformed id is answered 400 and the
\* handler returns.
UpdBegin(id, name, status) ==
    /\ pc = "idle"
    /\ upc = "idle"
    /\ req.op = "none"
    /\ upc' = IF id = Invalid THEN "done" ELSE "findById"
    /\ req' = [op |-> "update", id |-> id, name |-> name, parent |-> NoParent,
               status |-> status,
               code |-> IF id = Invalid THEN 400 ELSE NoCode]
    /\ pre' = store
    /\ calls' = <<>>
    /\ stack' = <<>>
    /\ UNCHANGED <<store, nextId, body, input, pc, dparent, dsubs, failed, orig,
                   ucat, hdr, result, procs, race>>

\* Faulty variant: the category is saved with its new name and status before
\* the cascade starts.
UpdFindByIdSavesFirst ==
    /\ upc = "findById"
    /\ calls' = Append(calls, Call("findById", <<>>))
    /\ IF req.id \notin DOMAIN store
       THEN /\ upc' = "done"
            /\ req' = [req EXCEPT !.code = 404]
            /\ UNCHANGED <<store, ucat>>
       ELSE LET category == store[req.id]
                cascade == /\ req.status # ""
                           /\ req.status # category.status
                           /\ req.status = "inactive"
            IN /\ ucat' = Assign(category, req.name, req.status)
               /\ upc' = IF cascade THEN "find" ELSE "save"
               /\ store' = IF cascade
                           THEN WriteModified(store, req.id, ucat')
                           ELSE store
               /\ UNCHANGED req
    /\ UNCHANGED <<nextId, pre, body, input, pc, dparent, dsubs, failed,
                   orig, stack, hdr, result, procs, race>>

\* Faulty variant: every update that carries a status starts the cascade.
UpdFindByIdAlwaysCascades ==
    /\ upc = "findById"
    /\ calls' = Append(calls, Call("findById", <<>>))
    /\ IF req.id \notin DOMAIN store
       THEN /\ upc' = "done"
            /\ req' = [req EXCEPT !.code = 404]
            /\ UNCHANGED ucat
       ELSE LET category == store[req.id]
            IN /\ ucat' = Assign(category, req.name, req.status)
               /\ upc' = IF req.status \in Statuses THEN "find" ELSE "save"
               /\ UNCHANGED req
    /\ UNCHANGED <<store, nextId, pre, body, input, pc, dparent, dsubs, failed,
                   orig, stack, hdr, result, procs, race>>

\* Faulty variant: an id that names no category is not answered 404; the
\* handler goes on to save a document of its own making.
UpdFindByIdUpserts ==
    /\ upc = "findById"
    /\ calls' = Append(calls, Call("findById", <<>>))
    /\ LET category == IF req.id \in DOMAIN store THEN store[req.id]
                       ELSE [name |-> "a", parent |-> NoParent,
                             status |-> "active"]
           cascade == /\ req.status # ""
                      /\ req.status # category.status
                      /\ req.status = "inactive"
       IN /\ ucat' = Assign(category, req.name, req.status)
          /\ upc' = IF cascade THEN "find" ELSE "save"
          /\ UNCHANGED req
    /\ UNCHANGED <<store, nextId, pre, body, input, pc, dparent, dsubs, failed,
                   orig, stack, hdr, result, procs, race>>

\* const category = await Category.findById(id), the 404 branch, then
\* category.name = name || category.name and the branch on the status: the
\* cascade when the status asked for is 'inactive' and not the current one.
UpdFindById ==
    /\ upc = "findById"
    /\ calls' = Append(calls, Call("findById", <<>>))
    /\ IF req.id \notin DOMAIN store
       THEN /\ upc' = "done"
            /\ req' = [req EXCEPT !.code = 404]
            /\ UNCHANGED ucat
       ELSE LET category == store[req.id]
                cascade == /\ req.status # ""
                           /\ req.status # category.status
                           /\ req.status = "inactive"
            IN /\ ucat' = Assign(category, req.name, req.status)
               /\ upc' = IF cascade THEN "find" ELSE "save"
               /\ UNCHANGED req
    /\ UNCHANGED <<store, nextId, pre, body, input, pc, dparent, dsubs, failed,
                   orig, stack, hdr, result, procs, race>>

\* await category.save(): validation first, which throws on a status that is
\* not of the enum (500, nothing written); then the name and the status are
\* written to the stored document and the response is 200.
UpdSave ==
    /\ upc = "save"
    /\ calls' = Append(calls, Call("save", <<>>))
    /\ IF Validates(ucat.name, ucat.status)
       THEN /\ store' = WriteModified(store, req.id, ucat)
            /\ req' = [req EXCEPT !.code = 200]
            /\ upc' = "done"
       ELSE /\ req' = [req EXCEPT !.code = 500]
            /\ upc' = "failed"
            /\ UNCHANGED store
    /\ UNCHANGED <<nextId, pre, body, input, pc, dparent, dsubs, failed, orig,
                   ucat, stack, hdr, result, procs, race>>

\* findById, find or save throws and writes nothing: the catch block of
\* updateCategory answers 500 (a direct call of the cascade just throws).
UpdStoreError ==
    /\ upc \in {"findById", "find", "save"}
    /\ Len(failed) < MaxFails
    /\ failed' = Append(failed, upc)
    /\ calls' = Append(calls, Call(upc, <<>>))
    /\ upc' = "failed"
    /\ req' = [req EXCEPT !.code = 500]
    /\ UNCHANGED <<store, nextId, pre, body, input, pc, dparent, dsubs, orig,
                   ucat, stack, hdr, result, procs, race>>

\* bulkWrite throws: the k operations before the failing one are written.
UpdBulkWriteError(k) ==
    /\ upc = "bulkWrite"
    /\ Len(failed) < MaxFails
    /\ k \in 0..Len(Last(stack).children)
    /\ store' = BulkWriteStatus(store, SubSeq(Last(stack).children, 1, k),
                                req.status)
    /\ failed' = Append(failed, upc)
    /\ calls' = Append(calls, Call(upc, SubSeq(Last(stack).children, 1, k)))
    /\ upc' = "failed"
    /\ req' = [req EXCEPT !.code = 500]
    /\ UNCHANGED <<nextId, pre, body, input, pc, dparent, dsubs, orig, ucat,
                   stack, hdr, result, procs, race>>

\* One handler, step by step, on an arbitrary forest: the cascade called
\* directly, an update (whose store calls may throw) or a delete.
StepsNext ==
    \/ \E id \in NodeIds, status \in Statuses : CasBegin(id, status)
    \/ CasFind
    \/ CasBulkWrite
    \/ \E id \in NodeIds \cup {Invalid}, name \in {"", "b"},
          status \in PutStatuses : UpdBegin(id, name, status)
    \/ UpdFindById
    \/ UpdSave
    \/ UpdStoreError
    \/ \E k \in 0..MaxNodes : UpdBulkWriteError(k)
    \/ \E id \in NodeIds : DelBegin(id)
    \/ DelFindById
    \/ DelFind
    \/ DelBulkWrite
    \/ DelFindByIdAndDelete

SpecSteps == ForestInit /\ [][StepsNext]_vars

(***************************************************************************)
(* updateDescendantStatus on a collection whose parent references may form *)
(* cycles.  Every store call is answered, so a cascade that has a next     *)
(* step takes it.                                                          *)
(***************************************************************************)
\* Every assignment of parents to the categories 1..k, cycles included; the
\* cascade reads no status, so the categories start active.
Graphs ==
    UNION {[1..k -> [name : {"a"}, parent : (1..k) \cup {NoParent},
                     status : {"active"}]] : k \in 0..MaxNodes}

CascadeInit ==
    /\ store \in Graphs
    /\ nextId = MaxNodes + 1
    /\ req = NoReq
    /\ pre = EmptyStore
    /\ body = NoBody
    /\ input = <<>>
    /\ pc = "idle"
    /\ dparent = NoParent
    /\ dsubs = <<>>
    /\ failed = <<>>
    /\ orig = EmptyStore
    /\ upc = "idle"
    /\ ucat = NoDoc
    /\ stack = <<>>
    /\ calls = <<>>
    /\ hdr = NoAuth
    /\ result = <<>>
    /\ procs = NoProcs
    /\ race = NoProcs

\* updateCategory is the one caller, and 'inactive' the one status it passes.
CascadeNext ==
    \/ \E id \in NodeIds : CasBegin(id, "inactive")
    \/ CasFind
    \/ CasBulkWrite

SpecCascade == CascadeInit /\ [][CascadeNext]_vars /\ WF_vars(CascadeNext)

(***************************************************************************)
(* The category router: authenticate in front of the four handlers.        *)
(***************************************************************************)
\* The tokens jwt.verify(token, JWT_SECRET) accepts: signed with the secret
\* and not expired.  Every other token makes it throw.
ValidTokens == {"good"}

\* Authorization headers, split at the spaces: none, a scheme without a
\* token, a token without a scheme, a token that verifies or does not after
\* a scheme, and a token that verifies after two spaces.
Headers ==
    {NoHeader, <<"Bearer">>, <<"good">>, <<"Bearer", "good">>,
     <<"Bearer", "bad">>, <<"Bearer", "", "good">>}

\* Faulty variant: a token that does not verify is let through.
AuthenticateLax(header) ==
    IF header = NoHeader THEN [code |-> 401, next |-> FALSE]
    ELSE IF Len(header) < 2 \/ header[2] = ""
         THEN [code |-> 401, next |-> FALSE]
         ELSE [code |-> NoCode, next |-> TRUE]

\* authenticate: 401 without a header, 401 when header.split(' ')[1] is
\* missing or empty, 401 when jwt.verify throws, next() otherwise.
Authenticate(header) ==
    IF header = NoHeader THEN [code |-> 401, next |-> FALSE]
    ELSE IF Len(header) < 2 \/ header[2] = ""
         THEN [code |-> 401, next |-> FALSE]
         ELSE IF header[2] \notin ValidTokens
              THEN [code |-> 401, next |-> FALSE]
              ELSE [code |-> NoCode, next |-> TRUE]

\* router.use(authenticate) in front of a handler: the handler, whose
\* outcome is r and whose response body is tree, runs when authenticate
\* called next(), and not at all otherwise.
Routed(header, request, r, tree) ==
    /\ pc = "idle"
    /\ upc = "idle"
    /\ req.op = "none"
    /\ LET a == Authenticate(header)
       IN /\ hdr' = [words |-> header, next |-> a.next]
          /\ store' = IF a.next THEN r.st ELSE store
          /\ req' = [request EXCEPT !.code = IF a.next THEN r.code ELSE a.code]
          /\ body' = IF a.next THEN tree ELSE NoBody
    /\ nextId' = IF nextId \in DOMAIN store' THEN nextId + 1 ELSE nextId
    /\ pre' = store
    /\ UNCHANGED <<input, pc, dparent, dsubs, failed, orig, upc, ucat, stack,
                   calls, result, procs, race>>

\* router.post('/', categoryController.createCategory)
RoutePost(header, name, parent, status) ==
    Routed(header,
           [NoReq EXCEPT !.op = "create", !.id = nextId, !.name = name,
                         !.parent = parent, !.status = status],
           CreateCategory(store, nextId, name, parent, status), NoBody)

\* router.get('/', categoryController.getAllCategories)
RouteGet(header) ==
    Routed(header, [NoReq EXCEPT !.op = "getAll"],
           [st |-> store, code |-> 200], BuildCategoryTreeCtl(FindAll(store)))

\* router.put('/:id', categoryController.updateCategory)
RoutePut(header, id, name, status) ==
    Routed(header,
           [NoReq EXCEPT !.op = "update", !.id = id, !.name = name,
                         !.status = status],
           UpdateCategory(store, id, name, status), NoBody)

\* router.delete('/:id', categoryController.deleteCategory)
RouteDelete(header, id) ==
    Routed(header, [NoReq EXCEPT !.op = "delete", !.id = id],
           DeleteCategory(store, id), NoBody)

\* One routed request on a forest.  authenticate reads no category: the
\* forests are the all-active ones.
RouterInit == DeleteInit

RouterNext ==
    \/ \E header \in Headers, parent \in NodeIds \cup {NoParent},
          status \in ReqStatuses : RoutePost(header, "a", parent, status)
    \/ \E header \in Headers : RouteGet(header)
    \/ \E header \in Headers, id \in NodeIds, status \in ReqStatuses :
           RoutePut(header, id, "b", status)
    \/ \E header \in Headers, id \in NodeIds : RouteDelete(header, id)

SpecRouter == RouterInit /\ [][RouterNext]_vars

(***************************************************************************)
(* Handlers that run at once.  A handler is suspended at its store calls    *)
(* and nowhere else: every step below is one store call of one handler     *)
(* together with the code that follows it up to the next store call.       *)
(***************************************************************************)
\* What the steps of these handlers leave alone.
ConcFrame ==
    UNCHANGED <<req, pre, body, input, pc, dparent, dsubs, failed, orig, upc,
                ucat, stack, calls, hdr, result, race>>

\* The handler has answered and holds no request any more.  (The response
\* code is not kept: the handlers one at a time show the codes.)
Answered(pr, code) == NoProc

\* POST /api/category has arrived.
CreateRequest(name, parent, status) ==
    [NoProc EXCEPT !.op = "create", !.name = name, !.parent = parent,
                   !.status = status,
                   !.pc = IF parent # NoParent THEN "findById" ELSE "save"]

\* createCategory: const parentCategory = await Category.findById(parent);
\* the 400 of a missing parent is sent and the handler goes on.
CreateFindById(st, pr) ==
    IF pr.parent = Invalid THEN Answered(pr, 500)
    ELSE [pr EXCEPT !.pc = "save",
                    !.code = IF pr.parent \notin DOMAIN st THEN 400
                             ELSE NoCode]

\* PUT /api/category/:id has arrived.
UpdateRequest(id, name, status) ==
    [NoProc EXCEPT !.op = "update", !.id = id, !.name = name,
                   !.status = status, !.pc = "findById"]

\* updateCategory: the 400 of a malformed id; findById, the 404 branch, the
\* assignments and the branch on the status.
UpdateFindById(st, pr) ==
    IF pr.id = Invalid THEN Answered(pr, 400)
    ELSE IF pr.id \notin DOMAIN st THEN Answered(pr, 404)
    ELSE LET category == st[pr.id]
             cascade == /\ pr.status # ""
                        /\ pr.status # category.status
                        /\ pr.status = "inactive"
         IN [pr EXCEPT !.cat = Assign(category, pr.name, pr.status),
                       !.pc = IF cascade THEN "find" ELSE "save"]

\* DELETE /api/category/:id has arrived; the 400 of a malformed id is sent
\* and the handler goes on.
DeleteRequest(id) ==
    [NoProc EXCEPT !.op = "delete", !.id = id, !.pc = "findById",
                   !.code = IF id = Invalid THEN 400 ELSE NoCode]

\* deleteCategory: findById, the 404 branch, const parentId = category.parent.
DeleteFindById(st, pr) ==
    IF pr.id = Invalid THEN Answered(pr, 500)
    ELSE IF pr.id \notin DOMAIN st THEN Answered(pr, 404)
    ELSE [pr EXCEPT !.dparent = st[pr.id].parent, !.pc = "find"]

\* The handlers that will still save a new category.
Creating == {p \in Procs : procs[p].op = "create"}

\* A create request arrives at an idle handler, which runs to its first
\* store call and through it when that is findById(parent).
ConcCreate(p, name, parent, status) ==
    /\ procs[p].pc = "idle"
    /\ nextId + Cardinality(Creating) <= MaxIds
    /\ procs' = [procs EXCEPT ![p] =
                    LET pr == CreateRequest(name, parent, status)
                    IN IF pr.pc = "findById" THEN CreateFindById(store, pr)
                       ELSE pr]
    /\ UNCHANGED <<store, nextId>>
    /\ ConcFrame

\* createCategory: new Category({...}) and await category.save().
ConcCreateSave(p) ==
    /\ procs[p].op = "create"
    /\ procs[p].pc = "save"
    /\ LET doc == [name |-> procs[p].name, parent |-> procs[p].parent,
                   status |-> IF procs[p].status = "" THEN "active"
                              ELSE procs[p].status]
       IN IF Validates(doc.name, doc.status)
          THEN /\ store' = InsertDoc(store, nextId, doc)
               /\ nextId' = nextId + 1
               /\ procs' = [procs EXCEPT ![p] = Answered(procs[p], 201)]
          ELSE /\ procs' = [procs EXCEPT ![p] = Answered(procs[p], 500)]
               /\ UNCHANGED <<store, nextId>>
    /\ ConcFrame

\* An update request arrives at an idle handler, which runs through its
\* first store call, findById.
ConcUpdate(p, id, name, status) ==
    /\ procs[p].pc = "idle"
    /\ procs' = [procs EXCEPT ![p] =
                    UpdateFindById(store, UpdateRequest(id, name, status))]
    /\ UNCHANGED <<store, nextId>>
    /\ ConcFrame

\* updateCategory: findById of a request that was waiting for it.
ConcUpdFindById(p) ==
    /\ procs[p].op = "update"
    /\ procs[p].pc = "findById"
    /\ procs' = [procs EXCEPT ![p] = UpdateFindById(store, procs[p])]
    /\ UNCHANGED <<store, nextId>>
    /\ ConcFrame

\* The parentId of the call of updateDescendantStatus that is about to run
\* Category.find.
ConcFindTarget(pr) ==
    IF pr.stack = <<>> THEN pr.id
    ELSE Last(pr.stack).children[Last(pr.stack).i]

\* updateDescendantStatus: const children = await Category.find({ parent:
\* parentId }); with no children the call returns.
ConcCasFind(p) ==
    /\ procs[p].op = "update"
    /\ procs[p].pc = "find"
    /\ Len(procs[p].stack) < MaxDepth
    /\ LET children == FindByParent(store, ConcFindTarget(procs[p]))
           returned == Return(procs[p].stack)
       IN procs' = [procs EXCEPT ![p] =
                       IF Len(children) > 0
                       THEN [procs[p] EXCEPT
                               !.stack = Append(@, Frame(children, 0)),
                               !.pc = "bulkWrite"]
                       ELSE [procs[p] EXCEPT
                               !.stack = returned,
                               !.pc = IF returned = <<>> THEN "save"
                                      ELSE "find"]]
    /\ UNCHANGED <<store, nextId>>
    /\ ConcFrame

\* updateDescendantStatus: await Category.bulkWrite(bulkOps); a child that
\* was deleted since the find matches no document.
ConcCasBulkWrite(p) ==
    /\ procs[p].op = "update"
    /\ procs[p].pc = "bulkWrite"
    /\ store' = BulkWriteStatus(store, Last(procs[p].stack).children,
                                procs[p].status)
    /\ procs' = [procs EXCEPT ![p] =
                    [procs[p] EXCEPT
                       !.stack = Append(Front(@), [Last(@) EXCEPT !.i = 1]),
                       !.pc = "find"]]
    /\ UNCHANGED nextId
    /\ ConcFrame

\* updateCategory: await category.save().  The modified paths are written to
\* the stored document; when the document was deleted since findById there
\* is nothing to write to (whether save() then throws depends on the
\* mongoose version, and changes the response only).
ConcUpdSave(p) ==
    /\ procs[p].op = "update"
    /\ procs[p].pc = "save"
    /\ IF Validates(procs[p].cat.name, procs[p].cat.status)
       THEN /\ store' = WriteModified(store, procs[p].id, procs[p].cat)
            /\ procs' = [procs EXCEPT ![p] = Answered(procs[p], 200)]
       ELSE /\ procs' = [procs EXCEPT ![p] = Answered(procs[p], 500)]
            /\ UNCHANGED store
    /\ UNCHANGED nextId
    /\ ConcFrame

\* A delete request arrives at an idle handler, which runs through its
\* first store call, findById.
ConcDelete(p, id) ==
    /\ procs[p].pc = "idle"
    /\ procs' = [procs EXCEPT ![p] = DeleteFindById(store, DeleteRequest(id))]
    /\ UNCHANGED <<store, nextId>>
    /\ ConcFrame

\* deleteCategory: findById of a request that was waiting for it.
ConcDelFindById(p) ==
    /\ procs[p].op = "delete"
    /\ procs[p].pc = "findById"
    /\ procs' = [procs EXCEPT ![p] = DeleteFindById(store, procs[p])]
    /\ UNCHANGED <<store, nextId>>
    /\ ConcFrame

\* deleteCategory: const subcategories = await Category.find({ parent: id })
ConcDelFind(p) ==
    /\ procs[p].op = "delete"
    /\ procs[p].pc = "find"
    /\ LET subcategories == FindByParent(store, procs[p].id)
       IN procs' = [procs EXCEPT ![p] =
                       [procs[p] EXCEPT
                          !.subs = subcategories,
                          !.pc = IF Len(subcategories) > 0 THEN "bulkWrite"
                                 ELSE "delete"]]
    /\ UNCHANGED <<store, nextId>>
    /\ ConcFrame

\* Faulty variant: the subcategories are put under the first of them.
ConcDelBulkWritePromotes(p) ==
    /\ procs[p].op = "delete"
    /\ procs[p].pc = "bulkWrite"
    /\ store' = BulkWriteParent(store, procs[p].subs, procs[p].subs[1])
    /\ procs' = [procs EXCEPT ![p] = [procs[p] EXCEPT !.pc = "delete"]]
    /\ UNCHANGED nextId
    /\ ConcFrame

\* deleteCategory: await Category.bulkWrite(bulkOps), parent: parentId ||
\* null on each subcategory found, with the parentId read at findById.
ConcDelBulkWrite(p) ==
    /\ procs[p].op = "delete"
    /\ procs[p].pc = "bulkWrite"
    /\ store' = BulkWriteParent(store, procs[p].subs, procs[p].dparent)
    /\ procs' = [procs EXCEPT ![p] = [procs[p] EXCEPT !.pc = "delete"]]
    /\ UNCHANGED nextId
    /\ ConcFrame

\* deleteCategory: await Category.findByIdAndDelete(id) and the 200.
ConcDelFindByIdAndDelete(p) ==
    /\ procs[p].op = "delete"
    /\ procs[p].pc = "delete"
    /\ store' = FindByIdAndDelete(store, procs[p].id)
    /\ procs' = [procs EXCEPT ![p] = Answered(procs[p], 200)]
    /\ UNCHANGED nextId
    /\ ConcFrame

\* Requests arrive at any time, two in flight at most, from the empty
\* store; their store calls interleave in every way.  An update asks for
\* 'inactive', the status that makes updateCategory cascade.  The parent of
\* a create is absent or the id of a category created so far, which may
\* have been deleted since and is then a parent that names no category.
ConcNext ==
    \/ \E p \in Procs, parent \in KnownIds \cup {NoParent} :
           ConcCreate(p, "a", parent, "")
    \/ \E p \in Procs : ConcCreateSave(p)
    \/ \E p \in Procs, id \in KnownIds : ConcUpdate(p, id, "", "inactive")
    \/ \E p \in Procs : ConcCasFind(p)
    \/ \E p \in Procs : ConcCasBulkWrite(p)
    \/ \E p \in Procs : ConcUpdSave(p)
    \/ \E p \in Procs, id \in KnownIds : ConcDelete(p, id)
    \/ \E p \in Procs : ConcDelFind(p)
    \/ \E p \in Procs : ConcDelBulkWrite(p)
    \/ \E p \in Procs : ConcDelFindByIdAndDelete(p)

SpecConc == Init /\ [][ConcNext]_vars

(***************************************************************************)
(* Two requests on overlapping subtrees of a forest, in flight together:   *)
(* an update to 'inactive' or a delete of a category, and a delete of one  *)
(* of its descendants.                                                     *)
(***************************************************************************)
RaceInit ==
    /\ store \in Forests
    /\ \A id \in DOMAIN store : store[id].status = "active"
    /\ orig = store
    /\ \E a \in DOMAIN store :
           \E b \in Descendants(store, a) :
               procs \in {[p |-> UpdateRequest(a, "", "inactive"),
                           q |-> DeleteRequest(b)],
                          [p |-> DeleteRequest(a), q |-> DeleteRequest(b)]}
    /\ race = procs
    /\ nextId = MaxNodes + 1
    /\ req = NoReq
    /\ pre = EmptyStore
    /\ body = NoBody
    /\ input = <<>>
    /\ pc = "idle"
    /\ dparent = NoParent
    /\ dsubs = <<>>
    /\ failed = <<>>
    /\ upc = "idle"
    /\ ucat = NoDoc
    /\ stack = <<>>
    /\ calls = <<>>
    /\ hdr = NoAuth
    /\ result = <<>>

RaceNext ==
    \/ \E p \in Procs : ConcUpdFindById(p)
    \/ \E p \in Procs : ConcCasFind(p)
    \/ \E p \in Procs : ConcCasBulkWrite(p)
    \/ \E p \in Procs : ConcUpdSave(p)
    \/ \E p \in Procs : ConcDelFindById(p)
    \/ \E p \in Procs : ConcDelFind(p)
    \/ \E p \in Procs : ConcDelBulkWrite(p)
    \/ \E p \in Procs : ConcDelFindByIdAndDelete(p)

SpecRace == RaceInit /\ [][RaceNext]_vars

(***************************************************************************)
(* Properties of the status cascade and of the delete, on arbitrary        *)
(* forests (SpecForest).                                                   *)
(***************************************************************************)
\* C1: cascade completeness.  When updateDescendantStatus(id, s) has run on an
\* acyclic forest, every transitive descendant of id has status s.
C1_CascadeCompleteness ==
    req.op = "cascade" =>
        \A d \in Descendants(pre, req.id) :
            d \in DOMAIN store /\ store[d].status = req.status

\* A cascade that changed the status of a descendant below the direct children.
C1_Witness ==
    /\ req.op = "cascade"
    /\ \E d \in Descendants(pre, req.id) :
           /\ pre[d].parent # req.id
           /\ pre[d].status # req.status
           /\ store[d].status = req.status

\* C3: reparent correctness.  After deleteCategory(X) answered 200, X is gone,
\* every former direct child of X has X's former parent (none when X was a
\* root), and no remaining category references X.
C3_ReparentCorrectness ==
    (req.op = "delete" /\ req.code = 200) =>
        /\ req.id \notin DOMAIN store
        /\ \A c \in Children(pre, req.id) :
               c \in DOMAIN store /\ store[c].parent = pre[req.id].parent
        /\ \A c \in DOMAIN store : store[c].parent # req.id

\* A delete of a category with a parent and two children.
C3_Witness ==
    /\ req.op = "delete"
    /\ req.code = 200
    /\ pre[req.id].parent # NoParent
    /\ Cardinality(Children(pre, req.id)) >= 2
    /\ \A c \in Children(pre, req.id) : store[c].parent = pre[req.id].parent

\* C4: cascade locality.  A cascade started at X (by updateDescendantStatus or
\* by updateCategory) leaves the status of every category that is neither X nor
\* a descendant of X unchanged, and the name and parent of every category other
\* than X unchanged.
C4_CascadeLocality ==
    req.op \in {"cascade", "update"} =>
        /\ DOMAIN store = DOMAIN pre
        /\ \A c \in DOMAIN pre :
               /\ (c # req.id /\ c \notin Descendants(pre, req.id))
                      => store[c].status = pre[c].status
               /\ c # req.id
                      => /\ store[c].name = pre[c].name
                         /\ store[c].parent = pre[c].parent

\* A deactivation that cascaded to a descendant while an active ancestor and an
\* active category outside the subtree exist.
C4_Witness ==
    /\ req.op = "update"
    /\ req.status = "inactive"
    /\ \E d \in Descendants(pre, req.id) :
           pre[d].status = "active" /\ store[d].status = "inactive"
    /\ \E a \in Ancestors(pre, req.id) : store[a].status = "active"
    /\ \E c \in DOMAIN pre :
           /\ c # req.id
           /\ c \notin Descendants(pre, req.id)
           /\ c \notin Ancestors(pre, req.id)
           /\ store[c].status = "active"

\* C5: delete frame.  deleteCategory(X) removes X and rewrites the parent of
\* X's direct children only: every other category keeps its parent, and no
\* remaining category's status or name changes.
C5_DeleteFrame ==
    req.op = "delete" =>
        /\ DOMAIN store = DOMAIN pre \ {req.id}
        /\ \A c \in DOMAIN store :
               /\ store[c].name = pre[c].name
               /\ store[c].status = pre[c].status
               /\ pre[c].parent # req.id => store[c].parent = pre[c].parent

\* A delete of a category that has a grandchild, which keeps its parent.
C5_Witness ==
    /\ req.op = "delete"
    /\ req.code = 200
    /\ \E g \in Descendants(pre, req.id) :
           /\ pre[g].parent # req.id
           /\ store[g].parent = pre[g].parent

(***************************************************************************)
(* Properties of request sequences against the API (Spec).                 *)
(***************************************************************************)
\* C2 as stated: whenever PUT /api/category/:id with status 'inactive' answers
\* 200, the category and every one of its transitive descendants are inactive.
C2_DeactivationCascades ==
    (req.op = "update" /\ req.status = "inactive" /\ req.code = 200) =>
        /\ store[req.id].status = "inactive"
        /\ \A d \in Descendants(store, req.id) : store[d].status = "inactive"

\* C2 amended: whenever PUT /api/category/:id with status 'inactive' answers
\* 200 for a category that was not inactive before the request, the category
\* and every one of its transitive descendants are inactive.
C2_DeactivationCascadesWhenChanged ==
    (/\ req.op = "update"
     /\ req.status = "inactive"
     /\ req.code = 200
     /\ pre[req.id].status # "inactive") =>
        /\ store[req.id].status = "inactive"
        /\ \A d \in Descendants(store, req.id) : store[d].status = "inactive"

\* A deactivation of an active category over an active child and grandchild.
C2_Witness ==
    /\ req.op = "update"
    /\ req.status = "inactive"
    /\ req.code = 200
    /\ pre[req.id].status = "active"
    /\ \E d \in Descendants(pre, req.id) :
           /\ pre[d].parent # req.id
           /\ pre[d].status = "active"
           /\ pre[pre[d].parent].status = "active"
           /\ store[d].status = "inactive"

\* C6 as stated: createCategory with a well-formed parent id that is not in the
\* store answers 400 and adds no category.
C6_UnknownParentRejected ==
    (/\ req.op = "create"
     /\ req.parent \notin {NoParent, Invalid}
     /\ req.parent \notin DOMAIN pre) =>
        /\ req.code = 400
        /\ store = pre

\* The ids nested under a list of nodes, depth first.
RECURSIVE Preorder(_, _)
Preorder(t, ids) ==
    IF ids = <<>> THEN <<>>
    ELSE <<Head(ids)>> \o Preorder(t, t.nodes[Head(ids)].children)
                       \o Preorder(t, Tail(ids))

\* Number of places of a sequence that hold x.
Count(seq, x) == Cardinality({i \in DOMAIN seq : seq[i] = x})

\* C8 as stated: in the tree GET /api/category returns, every stored category
\* whose parent is not a stored category is in the root list, and no stored
\* category is missing.
C8_DanglingParentsAreRoots ==
    req.op = "getAll" =>
        /\ \A c \in DOMAIN store :
               (store[c].parent # NoParent /\ store[c].parent \notin DOMAIN store)
                   => Count(body.roots, c) = 1
        /\ \A c \in DOMAIN store : Count(Preorder(body, body.roots), c) = 1

(***************************************************************************)
(* Properties of the tree builders (SpecTree).                             *)
(***************************************************************************)
\* C7 as stated: for every input with distinct ids, whatever its parent
\* references, the forest of the utility's buildCategoryTree holds each input
\* record exactly once, so the nodes under the root list number the input length.
C7_Partition ==
    req.op = "buildTree" =>
        /\ Len(Preorder(body, body.roots)) = Len(input)
        /\ \A i \in DOMAIN input :
               Count(Preorder(body, body.roots), input[i]._id) = 1

\* C7 amended: for every input with distinct ids whose parent references hold
\* no cycle, the forest of the utility's buildCategoryTree holds each input
\* record exactly once, so the nodes under the root list number the input length.
C7_PartitionAcyclic ==
    (req.op = "buildTree" /\ Acyclic(InputStore(input))) =>
        /\ Len(Preorder(body, body.roots)) = Len(input)
        /\ \A i \in DOMAIN input :
               Count(Preorder(body, body.roots), input[i]._id) = 1

\* A built tree of three records: a root, a record nested under it and a
\* record whose parent is not in the input.
C7_Witness ==
    /\ req.op = "buildTree"
    /\ Len(input) = MaxLen
    /\ Acyclic(InputStore(input))
    /\ \E i, j \in DOMAIN input :
           /\ input[i].parent # NoParent
           /\ input[i].parent \notin DOMAIN body.nodes
           /\ Count(body.roots, input[i]._id) = 1
           /\ input[j].parent \in DOMAIN body.nodes
           /\ Count(body.nodes[input[j].parent].children, input[j]._id) = 1

\* C9: nesting correctness, of both builders.  For every acyclic input, each
\* record whose parent is in the input is exactly once in the children list of
\* its parent's node and nowhere else; each record without a parent is exactly
\* once in the root list and in no children list.
C9_Nesting ==
    (req.op \in {"buildTree", "buildTreeCtl"} /\ Acyclic(InputStore(input))) =>
        \A i \in DOMAIN input :
            LET c == input[i]
            IN (c.parent = NoParent \/ c.parent \in DOMAIN body.nodes) =>
                 /\ Count(body.roots, c._id)
                        = IF c.parent = NoParent THEN 1 ELSE 0
                 /\ \A n \in DOMAIN body.nodes :
                        Count(body.nodes[n].children, c._id)
                            = IF n = c.parent THEN 1 ELSE 0

\* A built chain: a root, its child and the child's child, nested three deep.
C9_Witness ==
    /\ req.op = "buildTreeCtl"
    /\ \E a, b, c \in DOMAIN body.nodes :
           /\ body.roots = <<a>>
           /\ body.nodes[a].children = <<b>>
           /\ body.nodes[b].children = <<c>>
           /\ body.nodes[c].children = <<>>

(***************************************************************************)
(* Properties of the delete run one store call at a time (SpecDelete).     *)
(***************************************************************************)
\* C10: delete failure handling.  A store error before the bulk reassignment
\* leaves the store as it was; a store error at the final delete leaves every
\* direct child with the target's former parent and the target still stored;
\* after any of these, the retried delete ends in the store of a delete
\* without failure.
C10_DeleteFailureHandling ==
    /\ (pc = "failed" /\ Last(failed) \in {"findById", "find"}) => store = pre
    /\ (pc = "failed" /\ Last(failed) = "delete") =>
           /\ req.id \in DOMAIN store
           /\ store[req.id] = pre[req.id]
           /\ \A c \in Children(pre, req.id) :
                  store[c].parent = pre[req.id].parent
           /\ Children(store, req.id) = {}
    /\ (pc = "done" /\ failed # <<>>) =>
           /\ store = DeleteCategory(orig, req.id).st
           /\ req.code = DeleteCategory(orig, req.id).code

\* A delete of a category with a parent and two children that failed at the
\* final delete and was completed by the retry.
C10_Witness ==
    /\ pc = "done"
    /\ failed = <<"delete">>
    /\ req.code = 200
    /\ orig[req.id].parent # NoParent
    /\ Cardinality(Children(orig, req.id)) >= 2
    /\ \A c \in Children(orig, req.id) : store[c].parent = orig[req.id].parent

\* The place of the record with this id in a flat array.
Pos(categories, id) ==
    CHOOSE i \in DOMAIN categories : categories[i]._id = id

\* C11: on an input without a cycle below the id asked for (every acyclic
\* input is one), getAllDescendantIds returns the transitive descendants of
\* the id and nothing else, each once, never the id itself; the descendants
\* of a listed category follow it immediately (depth-first pre-order) and
\* categories with the same parent come in input order.
C11_DescendantListing ==
    (req.op = "listDescendants" /\ req.code # 500) =>
        LET st == InputStore(input)
            r == result
        IN /\ {r[i] : i \in DOMAIN r} = Descendants(st, req.id)
           /\ \A i, j \in DOMAIN r : i # j => r[i] # r[j]
           /\ \A i \in DOMAIN r : r[i] # req.id
           /\ \A i \in DOMAIN r :
                  LET n == Cardinality(Descendants(st, r[i]))
                  IN /\ i + n <= Len(r)
                     /\ {r[j] : j \in (i + 1)..(i + n)} = Descendants(st, r[i])
           /\ \A i, j \in DOMAIN r :
                  (i < j /\ st[r[i]].parent = st[r[j]].parent)
                      => Pos(input, r[i]) < Pos(input, r[j])

\* A listing of three: a child, its own child right after it, then a second
\* child that has the larger place in the input but the smaller id.
C11_Witness ==
    /\ req.op = "listDescendants"
    /\ req.code # 500
    /\ Len(result) = 3
    /\ InputStore(input)[result[2]].parent = result[1]
    /\ InputStore(input)[result[3]].parent = req.id
    /\ result[3] < result[1]

\* The ids of a list follow the order of their records in the input.
InInputOrder(ids) ==
    \A i, j \in DOMAIN ids : i < j => Pos(input, ids[i]) < Pos(input, ids[j])

\* The input in every order.
Permuted ==
    {[i \in DOMAIN input |-> input[f[i]]] :
        f \in {g \in [DOMAIN input -> DOMAIN input] :
                  \A i, j \in DOMAIN input : i # j => g[i] # g[j]}}

Range(seq) == {seq[i] : i \in DOMAIN seq}

\* C18: the root list and every children list of the utility's
\* buildCategoryTree hold their nodes in the order of the input records;
\* built from the input in any other order, the forest has the same roots
\* and the same children under every node.
C18_OutputOrder ==
    req.op = "buildTree" =>
        /\ InInputOrder(body.roots)
        /\ \A id \in DOMAIN body.nodes : InInputOrder(body.nodes[id].children)
        /\ \A other \in Permuted :
               LET t == BuildCategoryTree(other)
               IN /\ Range(t.roots) = Range(body.roots)
                  /\ DOMAIN t.nodes = DOMAIN body.nodes
                  /\ \A id \in DOMAIN t.nodes :
                         Range(t.nodes[id].children)
                             = Range(body.nodes[id].children)

\* A forest built from three records, with two children under one node in
\* input order and against the order of their ids.
C18_Witness ==
    /\ req.op = "buildTree"
    /\ Len(input) = 3
    /\ \E id \in DOMAIN body.nodes :
           /\ Len(body.nodes[id].children) = 2
           /\ body.nodes[id].children[1] > body.nodes[id].children[2]

(***************************************************************************)
(* Properties of the handlers run one store call at a time.                *)
(***************************************************************************)
\* C12: updateDescendantStatus(id, s) started on a collection in which no
\* cycle of parent references lies below id comes to its end, and started
\* with such a cycle below id it never does.
C12_CascadeTermination ==
    /\ [](req.op = "cascade" /\ CycleBelow(pre, req.id) => upc # "done")
    /\ (req.op = "cascade" /\ ~CycleBelow(pre, req.id)) ~> (upc = "done")

\* A cascade that ended, over two levels of descendants, in a collection
\* that has a cycle of parent references elsewhere.
C12_Witness ==
    /\ req.op = "cascade"
    /\ upc = "done"
    /\ ~Acyclic(store)
    /\ \E c \in Children(store, req.id) : Children(store, c) # {}

\* C13: in every run of deleteCategory, with store errors and retries, the
\* read of the target (and its parent) comes before the bulk reassignment of
\* its children, and the deletion is the last call, after the reassignment
\* of every child the target had; hence in no state is the target gone while
\* a stored category still has it as parent.
C13_DeleteStepOrder ==
    req.op = "delete" =>
        /\ \A i \in DOMAIN calls :
               calls[i].call = "bulkWrite"
                   => \E j \in 1..(i - 1) : calls[j].call = "findById"
        /\ \A i \in DOMAIN calls :
               calls[i].call = "findByIdAndDelete"
                   => /\ i = Len(calls)
                      /\ \E j \in 1..(i - 1) : calls[j].call = "findById"
                      /\ Children(pre, req.id) # {}
                             => \E j \in 1..(i - 1) :
                                    /\ calls[j].call = "bulkWrite"
                                    /\ {calls[j].ids[k] : k \in DOMAIN calls[j].ids}
                                           = Children(pre, req.id)
        /\ (req.id \in DOMAIN orig /\ req.id \notin DOMAIN store)
               => \A c \in DOMAIN store : store[c].parent # req.id

\* A delete that answered 200 after a failed first attempt, of a category
\* that had a parent and two children.
C13_Witness ==
    /\ req.op = "delete"
    /\ pc = "done"
    /\ req.code = 200
    /\ failed # <<>>
    /\ orig[req.id].parent # NoParent
    /\ Cardinality(Children(orig, req.id)) = 2
    /\ \E i \in DOMAIN calls : calls[i].call = "bulkWrite"

\* The calls of the log that write to the collection.
WriteCalls == {"save", "bulkWrite", "findByIdAndDelete"}

\* C14: updateCategory and deleteCategory called with a well-formed id of no
\* stored category issue no write at any step and leave the collection as
\* it was; the handler that comes to its end issued findById alone and
\* answered 404.
C14_NotFound ==
    (req.op \in {"update", "delete"} /\ req.id # Invalid
         /\ req.id \notin DOMAIN pre) =>
        /\ store = pre
        /\ \A i \in DOMAIN calls : calls[i].call \notin WriteCalls
        /\ (upc = "done" \/ pc = "done")
               => /\ req.code = 404
                  /\ calls = <<Call("findById", <<>>)>>

\* An update answered 404 on a collection that holds categories.
C14_Witness ==
    /\ req.op = "update"
    /\ upc = "done"
    /\ req.code = 404
    /\ req.status = "inactive"
    /\ req.id \notin DOMAIN store
    /\ store # EmptyStore

\* How many calls of the log are of these kinds.
NumCalls(kinds) == Cardinality({i \in DOMAIN calls : calls[i].call \in kinds})

ReadCalls == {"findById", "find"}

\* A handler that ran to its end on a stored category without children.
LeafRun(op) ==
    /\ req.op = op
    /\ req.id \in DOMAIN pre
    /\ Children(pre, req.id) = {}
    /\ (upc = "done" \/ pc = "done")

\* C15 as stated: the cascade and the delete applied to a category without
\* children perform at most one store read, no bulk write, and no write but
\* the deletion of the delete.
C15_LeafNoOp ==
    (LeafRun("cascade") \/ LeafRun("delete")) =>
        /\ NumCalls(ReadCalls) <= 1
        /\ NumCalls({"bulkWrite"}) = 0
        /\ NumCalls(WriteCalls) = IF req.op = "delete" THEN 1 ELSE 0

\* C15, amended: on a category without children the cascade issues the one
\* query for children and nothing else; the delete issues two reads, the
\* findById of the target and the query for children, then the deletion;
\* neither issues a bulk write.
C15_LeafNoOpTwoReads ==
    /\ LeafRun("cascade") => calls = <<Call("find", <<>>)>>
    /\ LeafRun("delete")
           => calls = <<Call("findById", <<>>), Call("find", <<>>),
                        Call("findByIdAndDelete", <<>>)>>

\* The delete of a category that has a parent and no children ran to its end.
C15_Witness ==
    /\ LeafRun("delete")
    /\ req.code = 200
    /\ pre[req.id].parent # NoParent
    /\ req.id \notin DOMAIN store

(***************************************************************************)
(* Properties of the router (SpecRouter).                                  *)
(***************************************************************************)
\* C16: on each of the four category routes, a request whose Authorization
\* header holds no token that verifies is answered 401, authenticate does
\* not call next() (the handler is not entered), no response body is built
\* and the collection is as it was.
C16_AuthenticationGate ==
    (req.op \in {"create", "getAll", "update", "delete"}
         /\ \A i \in DOMAIN hdr.words : hdr.words[i] \notin ValidTokens) =>
        /\ req.code = 401
        /\ ~hdr.next
        /\ store = pre
        /\ body = NoBody

\* A delete of a stored category, sent with a token that does not verify,
\* was answered 401.
C16_Witness ==
    /\ req.op = "delete"
    /\ hdr.words = <<"Bearer", "bad">>
    /\ req.id \in DOMAIN store
    /\ req.code = 401

\* An updateCategory that went into the cascade: the status asked for is
\* 'inactive' and the addressed category was not inactive.
Cascading ==
    /\ req.op = "update"
    /\ req.id \in DOMAIN pre
    /\ req.status = "inactive"
    /\ pre[req.id].status # "inactive"

\* The cascade of the update is under way, or a store call of it threw.
InCascade ==
    \/ upc \in {"find", "bulkWrite"}
    \/ upc = "failed" /\ Last(failed) \in {"find", "bulkWrite"}

\* C19: in an updateCategory that cascades, the addressed category's stored
\* record is as before the request as long as the cascade is under way, and
\* save is called only once every descendant is inactive.  When a store
\* call of the cascade throws, the response is 500, the addressed category's
\* record is unchanged, every category a bulk write of the run has written
\* is inactive and every other category is as it was.
C19_PartialCascade ==
    Cascading =>
        /\ InCascade
               => /\ store[req.id] = pre[req.id]
                  /\ NumCalls({"save"}) = 0
        /\ upc = "save"
               => /\ store[req.id] = pre[req.id]
                  /\ \A d \in Descendants(pre, req.id) :
                         store[d].status = "inactive"
        /\ (upc = "failed" /\ Last(failed) \in {"find", "bulkWrite"})
               => /\ req.code = 500
                  /\ LET written == UNION {Range(calls[i].ids) :
                                              i \in DOMAIN calls}
                     IN /\ written \subseteq Descendants(pre, req.id)
                        /\ \A c \in written : store[c].status = "inactive"
                        /\ \A c \in DOMAIN store \ written :
                               store[c] = pre[c]

\* A cascade that failed half way: a descendant was made inactive, another
\* is still active, and the addressed category is as it was.
C19_Witness ==
    /\ Cascading
    /\ upc = "failed"
    /\ Last(failed) \in {"find", "bulkWrite"}
    /\ \E d \in Descendants(pre, req.id) :
           pre[d].status = "active" /\ store[d].status = "inactive"
    /\ \E d \in Descendants(pre, req.id) : store[d].status = "active"
    /\ req.name = "b"

\* C20: an updateCategory of a stored category that asks for 'active' or
\* for no status issues neither the query for children nor a bulk write
\* and leaves every other category as it was; the calls of the cascade are
\* issued only when the status asked for is 'inactive' and the category was
\* not inactive, and then they are.
C20_ReactivationIsLocal ==
    (req.op = "update" /\ req.id \in DOMAIN pre) =>
        /\ req.status \in {"active", ""}
               => /\ NumCalls({"find", "bulkWrite"}) = 0
                  /\ \A c \in DOMAIN pre \ {req.id} :
                         c \in DOMAIN store /\ store[c] = pre[c]
        /\ NumCalls({"find", "bulkWrite"}) > 0 => Cascading
        /\ (Cascading /\ upc = "done") => NumCalls({"find"}) > 0

\* An inactive category with an inactive child was made active, answered
\* 200, and the child is still inactive.
C20_Witness ==
    /\ req.op = "update"
    /\ upc = "done"
    /\ req.code = 200
    /\ req.status = "active"
    /\ pre[req.id].status = "inactive"
    /\ store[req.id].status = "active"
    /\ \E c \in Children(store, req.id) : store[c].status = "inactive"

\* updateDescendantStatus(X, 'inactive') was called, directly or by
\* updateCategory, on a category whose descendants were all active.
CascadeOnActive ==
    /\ req.op = "cascade" \/ Cascading
    /\ req.status = "inactive"
    /\ req.id \in DOMAIN pre
    /\ \A d \in Descendants(pre, req.id) : pre[d].status = "active"

\* C21: in every state of updateDescendantStatus(X, 'inactive') on a subtree
\* that was all active, a descendant that is inactive has every category
\* between it and X inactive; and as long as no store call threw, each bulk
\* write named all the children of one category, so the children of a
\* category have one status in every state.
C21_TopDownOrder ==
    CascadeOnActive =>
        /\ \A d \in Descendants(pre, req.id) :
               store[d].status = "inactive"
                   => \A a \in Ancestors(pre, d) \cap Descendants(pre, req.id) :
                          store[a].status = "inactive"
        /\ failed = <<>>
               => /\ \A i \in DOMAIN calls :
                         calls[i].call = "bulkWrite"
                             => \E p \in DOMAIN pre :
                                    /\ p \in Descendants(pre, req.id) \cup {req.id}
                                    /\ Range(calls[i].ids) = Children(pre, p)
                  /\ \A c, d \in Descendants(pre, req.id) :
                         pre[c].parent = pre[d].parent
                             => store[c].status = store[d].status

\* Half way through a cascade: the two children of X are inactive, a
\* grandchild is still active.
C21_Witness ==
    /\ CascadeOnActive
    /\ upc = "find"
    /\ Cardinality(Children(pre, req.id)) = 2
    /\ \A c \in Children(pre, req.id) : store[c].status = "inactive"
    /\ \E d \in Descendants(pre, req.id) : store[d].status = "active"

(***************************************************************************)
(* Properties of request sequences from the empty store (Spec).            *)
(***************************************************************************)
\* C17 as stated: after any sequence of create, update and delete requests
\* from the empty store, the parent of every stored category is absent or
\* the id of a stored category.
C17_ReferentialIntegrity ==
    \A c \in DOMAIN store :
        store[c].parent = NoParent \/ store[c].parent \in DOMAIN store

BothAnswered == procs = NoProcs

\* C23 as stated: when a delete of a category and a delete of one of its
\* direct children have both been answered, whatever the order of their
\* store calls, every remaining category's parent is absent or stored.
C23_ConcurrentDeletes ==
    (/\ race["p"].op = "delete"
     /\ race["q"].op = "delete"
     /\ orig[race["q"].id].parent = race["p"].id
     /\ BothAnswered) =>
        \A c \in DOMAIN store :
            store[c].parent = NoParent \/ store[c].parent \in DOMAIN store

\* C24 as stated: when an update of A to 'inactive' and a delete of a
\* descendant B of A have both been answered, whatever the order of their
\* store calls, every remaining descendant of A is inactive.
C24_CascadeUnderDelete ==
    (/\ race["p"].op = "update"
     /\ race["q"].op = "delete"
     /\ race["q"].id \in Descendants(orig, race["p"].id)
     /\ BothAnswered) =>
        \A d \in Descendants(store, race["p"].id) :
            store[d].status = "inactive"

====
